---- MODULE Spec2Model ----
(***************************************************************************)
(* Reaction module of Purrify (src/module/reaction.rs) together with the   *)
(* backend cache manager it drives.  ReactionModule::init and              *)
(* ReactionModule::handle are translated from reaction.rs.  The            *)
(* BackendManager (mod backend) is not part of the available sources; its  *)
(* store, fetch, build_cache, get_cached and refresh_cache are modelled    *)
(* from the written specification of the cache manager.                    *)
(***************************************************************************)
EXTENDS Integers, Sequences, FiniteSets, TLC

(* ------------------------------ bounds -------------------------------- *)

\* number of command invocations (handler tasks) the dispatcher creates
MaxTasks == 2

\* number of distinct media URLs a backend can answer with for one key
NumUrls == 2

(* --------------------------- configuration ---------------------------- *)

\* A backend string "backend/endpoint" is the sequence of its "/"-separated
\* segments; a command or reaction name is a sequence of tokens whose first
\* token is "reaction" exactly when the name starts with "reaction".

\* A response template is the sequence of its words and placeholders.

\* Configuration.reactions, cloned into self.reactions by init
ConfigReactions ==
    << [name |-> <<"hug">>,  alias |-> TRUE,
        backends |-> << <<"giphy", "hug">>, <<"tenor", "hug">> >>,
        default_responses |-> << <<"{user}", "hugs", "{target}">> >>,
        bot_responses |-> << <<"{user}", "hugs", "me">> >>,
        self_responses |-> << <<"{user}", "hugs", "themselves">> >>],
       [name |-> <<"slap">>, alias |-> FALSE,
        backends |-> << <<"giphy", "slap">>, <<"solo">> >>,
        default_responses |-> << <<"{user}", "slaps", "{target}">> >>,
        bot_responses |-> << <<"{target}", "dodges", "{user}">> >>,
        self_responses |-> << >>],
       [name |-> <<"pat">>,  alias |-> FALSE,
        backends |-> << >>,
        default_responses |-> << <<"{user}", "pats", "{target}">> >>,
        bot_responses |-> << <<"{user}", "pats", "me">> >>,
        self_responses |-> << <<"{user}", "pats", "themselves">> >>] >>

\* (backend, endpoint) pairs the backend manager knows how to fetch
RegistryKeys == { <<"giphy", <<"hug">>>>, <<"giphy", <<"slap">>>> }

\* str::splitn(2, "/"): at most two parts, the second keeps the rest
SplitN2(segs) ==
    IF Len(segs) <= 1 THEN segs ELSE << segs[1], Tail(segs) >>

\* the backend strings of the configuration
ConfigBackends ==
    UNION { { ConfigReactions[i].backends[j] : j \in 1..Len(ConfigReactions[i].backends) } :
            i \in 1..Len(ConfigReactions) }

\* every key a handler can derive from the configuration, plus the registry
AllKeys ==
    RegistryKeys \cup { SplitN2(b) : b \in { c \in ConfigBackends : Len(c) >= 2 } }

Tasks == 1..MaxTasks

InitOwner == <<"init">>

HandleOwner(t) == <<"handle", t>>

\* Option<T>: None is <<>>, Some(x) is <<x>>
None == <<>>

Some(x) == <<x>>

\* the URL a backend answers with: fetched for key k, n-th distinct media URL
Url(k, n) == [key |-> k, n |-> n]

\* cmd.application_id: the user id of the bot
ApplicationId == "bot"

\* a command option of kind User carrying user id v
UserOption(v) == [name |-> <<"user">>, kind |-> "User", user |-> Some(v), sub |-> << >>]

\* a command option of kind SubCommand named n with nested options o
SubCommand(n, o) == [name |-> n, kind |-> "SubCommand", user |-> None, sub |-> o]

\* the option lists a command or subcommand can carry: a target user or nothing
TargetOptions == { << UserOption(v) >> : v \in {"alice", "bob"} } \cup { << >> }

\* commands the platform can deliver, run by user alice or by the bot's own
\* account
Commands ==
    { [name |-> <<"reaction">>, user |-> "alice", options |-> << SubCommand(n, o) >>] :
        n \in { <<"hug">>, <<"slap">>, <<"pat">>, <<"bogus">> }, o \in TargetOptions }
    \cup { [name |-> n, user |-> "alice", options |-> o] :
             n \in { <<"reaction">>, <<"hug">>, <<"nope">> },
             o \in { << UserOption("bob") >>, << >> } }
    \cup { [name |-> <<"hug">>, user |-> ApplicationId, options |-> << >>] }

(* ------------------------------- state -------------------------------- *)

VARIABLES
    phase,      \* "new", "building", "ready", "init_failed": progress of init
    borrow,     \* owners of the exclusive borrow (&mut self) of the module
    reactions,  \* self.reactions
    aliases,    \* self.aliases
    commands,   \* Option of the command list init returned
    store,      \* cache store: key -> Option<URL>
    inflight,   \* outbound fetches in flight: [owner, key]
    pc,         \* position of each handler task
    cmd,        \* Option of the command a handler was called with
    reaction,   \* index into self.reactions of the reaction a handler resolved
    user,       \* cmd.user.id of a handler
    target,     \* target user id of a handler
    key,        \* (backend, endpoint) a handler selected
    message,    \* Option of the response text a handler built
    response,   \* Option of the response delivered: its source line and its image
    image_url,  \* Option<URL> a handler got from get_cached
    status,     \* result of create_response: None, Some("Ok"), Some("Err")
    result,     \* what handle returned: None, <<"Ok">>, <<"Err", msg>>
    outcome,    \* history: Option of what the fetch of a handler's refresh resolved with
    refreshed,  \* history: the keys a handler called refresh_cache with, in order
    warm,       \* history: outcome of each key's warm-up fetch
    okFetches,  \* history: URLs returned by successful fetches
    lastPut     \* history: key -> Option<URL> of the last completed put

vars == << phase, borrow, reactions, aliases, commands, store, inflight, pc, cmd,
           reaction, user, target, key, image_url, message, response, status,
           result, outcome, refreshed, warm, okFetches, lastPut >>

handlerVars == << pc, cmd, reaction, user, target, key, image_url, message, response,
                  status, result, outcome, refreshed >>

(* --------------------- backend manager (cache core) ------------------- *)

\* Registry: fetch(backend, endpoint) -> Result<URL, FetchError>
Fetch(k) ==
    IF k \in RegistryKeys
    THEN { <<"Ok", Url(k, n)>> : n \in 1..NumUrls } \cup { <<"Err", "NetworkFailure">> }
    ELSE { <<"Err", "UnknownBackend">> }

\* every outcome a fetch can have
AllOutcomes == UNION { Fetch(k) : k \in AllKeys }

\* Store: get(key) -> Option<URL>
Get(s, k) == IF k \in DOMAIN s THEN s[k] ELSE None

\* variant: insert only when the entry is absent (`entry(k).or_insert(u)`)
PutIfAbsent(s, k, u) == IF s[k] = None THEN [s EXCEPT ![k] = Some(u)] ELSE s

\* Store: put(key, url), atomic replace of one entry
Put(s, k, u) == [s EXCEPT ![k] = Some(u)]

\* Manager: get_cached(backend, endpoint) -> Result<URL, NotCachedError>
GetCached(s, k) ==
    IF Get(s, k) = None THEN <<"Err", "NotCachedError">> ELSE <<"Ok", Get(s, k)[1]>>

\* variant: a failed fetch evicts the entry
RefreshStoreEvict(s, k, r) ==
    IF r[1] = "Ok" THEN Put(s, k, r[2])
    ELSE IF k \in DOMAIN s THEN [s EXCEPT ![k] = None] ELSE s

\* variant: a failed fetch stores a placeholder URL
RefreshStorePlaceholder(s, k, r) ==
    IF r[1] = "Ok" THEN Put(s, k, r[2])
    ELSE IF k \in DOMAIN s THEN [s EXCEPT ![k] = Some(Url(k, 0))] ELSE s

\* Manager: the store after refresh_cache's fetch resolved with outcome r
RefreshStore(s, k, r) == IF r[1] = "Ok" THEN Put(s, k, r[2]) ELSE s

\* Manager: what refresh_cache returns after its fetch resolved with r
RefreshResult(r) == IF r[1] = "Ok" THEN <<"Ok">> ELSE <<"Err", "FetchError">>

\* history bookkeeping of a fetch for key k that resolved with outcome r
Record(k, r) ==
    /\ okFetches' = IF r[1] = "Ok" THEN okFetches \cup {r[2]} ELSE okFetches
    /\ lastPut' = IF r[1] = "Ok" THEN [lastPut EXCEPT ![k] = Some(r[2])] ELSE lastPut

(* ----------------------- commands built by init ---------------------- *)

\* str::starts_with("reaction") on a tokenised name
StartsWithReaction(name) == Len(name) >= 1 /\ name[1] = "reaction"

\* slice::chunks(25): the batch size of a grouped command
ChunkSize == 25

DigitChars == << "0", "1", "2", "3", "4", "5", "6", "7", "8", "9" >>

\* usize::to_string: the decimal digits of i
RECURSIVE UsizeToString(_)
UsizeToString(i) ==
    IF i < 10 THEN << DigitChars[i + 1] >>
    ELSE UsizeToString(i \div 10) \o << DigitChars[(i % 10) + 1] >>

\* the required "user" option every reaction command carries
UserOptionDef == [name |-> <<"user">>, kind |-> "User", required |-> TRUE, sub |-> << >>]

\* the subcommand option created for reaction r
SubCommandDef(r) ==
    [name |-> r.name, kind |-> "SubCommand", required |-> FALSE, sub |-> << UserOptionDef >>]

\* rs.chunks(25): the batches, in order, the last one possibly shorter
Chunks(rs) ==
    [b \in 1..((Len(rs) + ChunkSize - 1) \div ChunkSize) |->
        SubSeq(rs, (b - 1) * ChunkSize + 1,
               IF b * ChunkSize < Len(rs) THEN b * ChunkSize ELSE Len(rs))]

\* variant: every grouped command carries its index
GroupNameIndexed(index) == <<"reaction">> \o UsizeToString(index)

\* format!("reaction{}", if index > 1 { index_str } else { "" })
GroupName(index) == <<"reaction">> \o (IF index > 1 THEN UsizeToString(index) ELSE << >>)

\* "split reactions into commands of 25 options"
GroupCommands(rs) ==
    [b \in 1..Len(Chunks(rs)) |->
        [name |-> GroupName(b),
         options |-> [j \in 1..Len(Chunks(rs)[b]) |-> SubCommandDef(Chunks(rs)[b][j])]]]

\* the reactions with the alias flag, in order
Aliased(rs) == SelectSeq(rs, LAMBDA r : r.alias)

\* "create individual commands for reactions with alias"
AliasCommands(rs) ==
    [j \in 1..Len(Aliased(rs)) |->
        [name |-> Aliased(rs)[j].name, options |-> << UserOptionDef >>]]

\* the command list init returns
BuildCommands(rs) == GroupCommands(rs) \o AliasCommands(rs)

\* self.aliases after init
BuildAliases(rs) == [j \in 1..Len(Aliased(rs)) |-> Aliased(rs)[j].name]

\* Module::handles
Handles(al, c) ==
    StartsWithReaction(c.name) \/ \E j \in 1..Len(al) : al[j] = c.name

(* ------------------------------- Init --------------------------------- *)

Init ==
    /\ phase = "new"
    /\ borrow = {}
    /\ reactions = << >>
    /\ aliases = << >>
    /\ commands = None
    /\ store = [k \in AllKeys |-> None]
    /\ inflight = {}
    /\ pc = [t \in Tasks |-> "idle"]
    /\ cmd = [t \in Tasks |-> None]
    /\ reaction = [t \in Tasks |-> None]
    /\ user = [t \in Tasks |-> None]
    /\ target = [t \in Tasks |-> None]
    /\ key = [t \in Tasks |-> None]
    /\ message = [t \in Tasks |-> None]
    /\ response = [t \in Tasks |-> None]
    /\ image_url = [t \in Tasks |-> None]
    /\ status = [t \in Tasks |-> None]
    /\ result = [t \in Tasks |-> None]
    /\ outcome = [t \in Tasks |-> None]
    /\ refreshed = [t \in Tasks |-> << >>]
    /\ warm = [k \in RegistryKeys |-> <<"none">>]
    /\ okFetches = {}
    /\ lastPut = [k \in AllKeys |-> None]

(* ----------------------- exclusive borrow of self --------------------- *)

\* init and handle take `&mut self`: a call can start only while no other
\* call on the module is alive, and keeps the borrow until its future ends
\* variant: the module is shared (`&self`), calls may overlap
CanBorrowShared == TRUE

CanBorrow == borrow = {}

(* --------------------------- Module::init ----------------------------- *)

\* init: clone the reactions, call build_cache, which starts one warm-up
\* fetch per known pair and suspends until all of them have resolved
InitBeginWith(config) ==
    /\ phase = "new"
    /\ CanBorrow
    /\ borrow' = {InitOwner}
    /\ reactions' = config
    /\ phase' = "building"
    /\ inflight' = inflight \cup { [owner |-> InitOwner, key |-> k] : k \in RegistryKeys }
    /\ warm' = [k \in RegistryKeys |-> <<"pending">>]
    /\ UNCHANGED << aliases, commands, store, handlerVars, okFetches, lastPut >>

\* init with the configured reactions
InitBegin == InitBeginWith(ConfigReactions)

\* variant: the error of build_cache is ignored and the commands are returned
InitBuildFailSwallowed ==
    /\ phase = "new"
    /\ CanBorrow
    /\ reactions' = ConfigReactions
    /\ phase' = "init_failed"
    /\ commands' = Some(BuildCommands(ConfigReactions))
    /\ aliases' = BuildAliases(ConfigReactions)
    /\ UNCHANGED << borrow, store, inflight, handlerVars, warm, okFetches, lastPut >>

\* init: build_cache cannot attempt the warm-up; `?` makes init fail
InitBuildFailWith(config) ==
    /\ phase = "new"
    /\ CanBorrow
    /\ reactions' = config
    /\ phase' = "init_failed"
    /\ UNCHANGED << borrow, aliases, commands, store, inflight, handlerVars,
                    warm, okFetches, lastPut >>

\* init with the configured reactions, build_cache failing
InitBuildFail == InitBuildFailWith(ConfigReactions)

\* build_cache: the warm-up fetch of pair k resolves; a failure is swallowed
WarmResolve(k, r) ==
    /\ phase = "building"
    /\ [owner |-> InitOwner, key |-> k] \in inflight
    /\ r \in Fetch(k)
    /\ inflight' = inflight \ { [owner |-> InitOwner, key |-> k] }
    /\ store' = RefreshStore(store, k, r)
    /\ warm' = [warm EXCEPT ![k] = IF r[1] = "Ok" THEN <<"ok", r[2]>> ELSE <<"failed">>]
    /\ Record(k, r)
    /\ UNCHANGED << phase, borrow, reactions, aliases, commands, handlerVars >>

\* variant: init goes on without waiting for the warm-up fetches
InitEndEarly ==
    /\ phase = "building"
    /\ phase' = "ready"
    /\ borrow' = borrow \ {InitOwner}
    /\ commands' = Some(BuildCommands(reactions))
    /\ aliases' = BuildAliases(reactions)
    /\ UNCHANGED << reactions, store, inflight, handlerVars, warm, okFetches, lastPut >>

\* init: build_cache().await returned Ok; the commands are built and returned
InitEnd ==
    /\ phase = "building"
    /\ \A f \in inflight : f.owner # InitOwner
    /\ phase' = "ready"
    /\ borrow' = borrow \ {InitOwner}
    /\ commands' = Some(BuildCommands(reactions))
    /\ aliases' = BuildAliases(reactions)
    /\ UNCHANGED << reactions, store, inflight, handlerVars, warm, okFetches, lastPut >>

(* -------------------------- Module::handle ---------------------------- *)

\* self.reactions.iter().find(|r| r.name == n): index of the first match, 0 if none
Find(rs, n) ==
    IF \E i \in 1..Len(rs) : rs[i].name = n
    THEN CHOOSE i \in 1..Len(rs) :
            /\ rs[i].name = n
            /\ \A j \in 1..(i - 1) : rs[j].name # n
    ELSE 0

\* "get requested reaction": <<"Ok", index into rs, options>> or <<"Err", context>>
Resolve(rs, c) ==
    IF StartsWithReaction(c.name)
    THEN IF Len(c.options) = 0 THEN <<"Err", "no subcommand">>
         ELSE IF c.options[1].kind # "SubCommand" THEN <<"Err", "invalid subcommand">>
         ELSE IF Find(rs, c.options[1].name) = 0 THEN <<"Err", "unknown reaction">>
         ELSE <<"Ok", Find(rs, c.options[1].name), c.options[1].sub>>
    ELSE IF Find(rs, c.name) = 0 THEN <<"Err", "unknown reaction">>
         ELSE <<"Ok", Find(rs, c.name), c.options>>

\* CommandDataOptionValue::as_user_id
AsUserId(opt) == IF opt.kind = "User" THEN opt.user ELSE None

\* "get user and target": the first option's user id, else the bot itself
Target(options) ==
    IF Len(options) >= 1 /\ AsUserId(options[1]) # None
    THEN AsUserId(options[1])[1]
    ELSE ApplicationId

\* variant: the bot case is tested before the self case
ResponseListBotFirst(r, usr, tgt) ==
    IF tgt = ApplicationId THEN r.bot_responses
    ELSE IF usr = tgt THEN r.self_responses
    ELSE r.default_responses

\* "build response": the template list for this user and target
ResponseList(r, usr, tgt) ==
    IF usr = tgt THEN r.self_responses
    ELSE IF tgt = ApplicationId THEN r.bot_responses
    ELSE r.default_responses

\* str::replace(from, to) on a tokenised template
Replace(tokens, from, to) ==
    [i \in 1..Len(tokens) |-> IF tokens[i] = from THEN to ELSE tokens[i]]

\* the response text: placeholders replaced, source line appended
Message(template, usr, tgt, backend, url) ==
    Replace(Replace(template, "{user}", <<"@", usr>>), "{target}", <<"@", tgt>>)
        \o << <<"From", backend, url>> >>

\* the future of handle ends: the locals the response was built from are
\* dropped and the borrow of the module ends
Drop(t) ==
    /\ cmd' = [cmd EXCEPT ![t] = None]
    /\ reaction' = [reaction EXCEPT ![t] = None]
    /\ user' = [user EXCEPT ![t] = None]
    /\ target' = [target EXCEPT ![t] = None]
    /\ message' = [message EXCEPT ![t] = None]
    /\ borrow' = borrow \ {HandleOwner(t)}

\* handle returns res
Return(t, res) ==
    /\ pc' = [pc EXCEPT ![t] = "done"]
    /\ result' = [result EXCEPT ![t] = res]
    /\ Drop(t)

\* handle panics (remainder by zero) and unwinds
Panic(t) ==
    /\ pc' = [pc EXCEPT ![t] = "panicked"]
    /\ Drop(t)
    /\ UNCHANGED result

\* invocations are numbered in their order of arrival: t is the next one
NextInvocation(t) == pc[t] = "idle" /\ \A u \in Tasks : u < t => pc[u] # "idle"

\* handle is entered with command cmd: resolve the reaction, get user and
\* target, pick a random backend string and split it into (backend, endpoint)
HandleBegin(t, c) ==
    /\ NextInvocation(t)
    /\ CanBorrow
    /\ LET r == Resolve(reactions, c) IN
       IF r[1] = "Err"
       THEN /\ Return(t, r)
            /\ UNCHANGED key
       ELSE IF Len(reactions[r[2]].backends) = 0
       THEN /\ Panic(t)
            /\ UNCHANGED key
       ELSE \E i \in 1..Len(reactions[r[2]].backends) :
               LET parts == SplitN2(reactions[r[2]].backends[i]) IN
               IF Len(parts) < 2
               THEN /\ Return(t, <<"Err", "no endpoint">>)
                    /\ UNCHANGED key
               ELSE /\ pc' = [pc EXCEPT ![t] = "lookup"]
                    /\ cmd' = [cmd EXCEPT ![t] = Some(c)]
                    /\ reaction' = [reaction EXCEPT ![t] = Some(r[2])]
                    /\ user' = [user EXCEPT ![t] = Some(c.user)]
                    /\ target' = [target EXCEPT ![t] = Some(Target(r[3]))]
                    /\ key' = [key EXCEPT ![t] = parts]
                    /\ borrow' = borrow \cup {HandleOwner(t)}
                    /\ UNCHANGED << message, result >>
    /\ UNCHANGED << phase, reactions, aliases, commands, store, inflight, image_url,
                    response, status, outcome, refreshed, warm, okFetches, lastPut >>

\* variant: a miss is replaced by a default and the handler goes on
\* (`.unwrap_or_default()` instead of `.context(..)?`)
HandleGetCachedDefault(t) ==
    /\ pc[t] = "lookup"
    /\ pc' = [pc EXCEPT ![t] = "build"]
    /\ image_url' = [image_url EXCEPT ![t] = Get(store, key[t])]
    /\ UNCHANGED << phase, borrow, reactions, aliases, commands, store, inflight,
                    cmd, reaction, user, target, key, message, response, status,
                    result, outcome, refreshed, warm, okFetches, lastPut >>

\* variant: a miss makes the handler fetch the key itself (a retry in the
\* same request) instead of returning
HandleGetCachedRetry(t) ==
    /\ pc[t] = "lookup"
    /\ LET r == GetCached(store, key[t]) IN
       IF r[1] = "Err"
       THEN /\ pc' = [pc EXCEPT ![t] = "refreshing"]
            /\ inflight' = inflight \cup { [owner |-> HandleOwner(t), key |-> key[t]] }
            /\ refreshed' = [refreshed EXCEPT ![t] = Append(refreshed[t], key[t])]
            /\ UNCHANGED image_url
       ELSE /\ pc' = [pc EXCEPT ![t] = "build"]
            /\ image_url' = [image_url EXCEPT ![t] = Some(r[2])]
            /\ UNCHANGED << inflight, refreshed >>
    /\ UNCHANGED << phase, borrow, reactions, aliases, commands, store, cmd, reaction,
                    user, target, key, message, response, status, result, outcome,
                    warm, okFetches, lastPut >>

\* "fetch reaction gif": get_cached(backend, endpoint).context("no cached gif")?
HandleGetCached(t) ==
    /\ pc[t] = "lookup"
    /\ LET r == GetCached(store, key[t]) IN
       IF r[1] = "Err"
       THEN /\ Return(t, <<"Err", "no cached gif">>)
            /\ UNCHANGED image_url
       ELSE /\ pc' = [pc EXCEPT ![t] = "build"]
            /\ image_url' = [image_url EXCEPT ![t] = Some(r[2])]
            /\ UNCHANGED << result, borrow, cmd, reaction, user, target, message >>
    /\ UNCHANGED << phase, reactions, aliases, commands, store, inflight, key, response,
                    status, outcome, refreshed, warm, okFetches, lastPut >>

\* "build response": pick a random template of the list for this user and
\* target, fill it in, and start sending the response
HandleBuildResponse(t) ==
    /\ pc[t] = "build"
    /\ LET list == ResponseList(reactions[reaction[t][1]], user[t][1], target[t][1]) IN
       IF Len(list) = 0
       THEN Panic(t)
       ELSE \E j \in 1..Len(list) :
               /\ message' = [message EXCEPT ![t] =
                      Some(Message(list[j], user[t][1], target[t][1], key[t][1],
                                   image_url[t][1]))]
               /\ pc' = [pc EXCEPT ![t] = "sending"]
               /\ UNCHANGED << borrow, result, cmd, reaction, user, target >>
    /\ UNCHANGED << phase, reactions, aliases, commands, store, inflight, key, image_url,
                    response, status, outcome, refreshed, warm, okFetches, lastPut >>

\* variant: a failed send returns at once (`status?` before the refresh)
HandleSendResolveReturnEarly(t, st) ==
    /\ pc[t] = "sending"
    /\ st \in {"Ok", "Err"}
    /\ status' = [status EXCEPT ![t] = Some(st)]
    /\ response' = [response EXCEPT ![t] =
          IF st = "Ok"
          THEN Some([source |-> message[t][1][Len(message[t][1])], image |-> image_url[t][1]])
          ELSE None]
    /\ IF st = "Ok"
       THEN /\ pc' = [pc EXCEPT ![t] = "refresh"]
            /\ UNCHANGED << borrow, cmd, reaction, user, target, message, result >>
       ELSE Return(t, <<"Err", "failed to send response">>)
    /\ UNCHANGED << phase, reactions, aliases, commands, store, inflight, key,
                    image_url, outcome, refreshed, warm, okFetches, lastPut >>

\* "send response": create_response(...).await resolves with Ok or Err
HandleSendResolve(t, st) ==
    /\ pc[t] = "sending"
    /\ st \in {"Ok", "Err"}
    /\ status' = [status EXCEPT ![t] = Some(st)]
    /\ response' = [response EXCEPT ![t] =
          IF st = "Ok"
          THEN Some([source |-> message[t][1][Len(message[t][1])], image |-> image_url[t][1]])
          ELSE None]
    /\ pc' = [pc EXCEPT ![t] = "refresh"]
    /\ UNCHANGED << phase, borrow, reactions, aliases, commands, store, inflight,
                    cmd, reaction, user, target, key, image_url, message, result,
                    outcome, refreshed, warm, okFetches, lastPut >>

\* variant: the refresh is started before the response has been sent
HandleRefreshStartEarly(t) ==
    /\ pc[t] \in {"sending", "refresh"}
    /\ inflight' = inflight \cup { [owner |-> HandleOwner(t), key |-> key[t]] }
    /\ refreshed' = [refreshed EXCEPT ![t] = Append(refreshed[t], key[t])]
    /\ pc' = [pc EXCEPT ![t] = "refreshing"]
    /\ UNCHANGED << phase, borrow, reactions, aliases, commands, store, cmd, reaction,
                    user, target, key, image_url, message, response, status, result,
                    outcome, warm, okFetches, lastPut >>

\* "refresh cache": refresh_cache(backend, endpoint) starts its fetch and suspends
HandleRefreshStart(t) ==
    /\ pc[t] = "refresh"
    /\ inflight' = inflight \cup { [owner |-> HandleOwner(t), key |-> key[t]] }
    /\ refreshed' = [refreshed EXCEPT ![t] = Append(refreshed[t], key[t])]
    /\ pc' = [pc EXCEPT ![t] = "refreshing"]
    /\ UNCHANGED << phase, borrow, reactions, aliases, commands, store, cmd, reaction,
                    user, target, key, image_url, message, response, status, result,
                    outcome, warm, okFetches, lastPut >>

\* variant: the refresh result is discarded (`let _ = ...await;`)
HandleResultDropRefresh(rr, st) ==
    IF st = Some("Err") THEN <<"Err", "failed to send response">> ELSE <<"Ok">>

\* variant: `status?` is checked before the result of the refresh
HandleResultSendFirst(rr, st) ==
    IF st = Some("Err") THEN <<"Err", "failed to send response">>
    ELSE IF rr[1] = "Err" THEN rr
    ELSE <<"Ok">>

\* what handle returns once the refresh returned rr and the send status is st
HandleResult(rr, st) ==
    IF rr[1] = "Err" THEN rr
    ELSE IF st = Some("Err") THEN <<"Err", "failed to send response">>
    ELSE <<"Ok">>

\* the fetch of the refresh resolves with r; refresh_cache(...).await? and
\* status.context("failed to send response")? decide what handle returns
HandleRefreshResolve(t, r) ==
    /\ pc[t] = "refreshing"
    /\ [owner |-> HandleOwner(t), key |-> key[t]] \in inflight
    /\ r \in Fetch(key[t])
    /\ inflight' = inflight \ { [owner |-> HandleOwner(t), key |-> key[t]] }
    /\ store' = RefreshStore(store, key[t], r)
    /\ Record(key[t], r)
    /\ outcome' = [outcome EXCEPT ![t] = Some(r)]
    /\ Return(t, HandleResult(RefreshResult(r), status[t]))
    /\ UNCHANGED << phase, reactions, aliases, commands, key, image_url, response,
                    status, refreshed, warm >>

\* the handler's future is dropped while suspended at one of its awaits:
\* the futures it awaits are dropped with it and its borrow ends
HandleAbort(t) ==
    /\ pc[t] \in {"sending", "refreshing"}
    /\ pc' = [pc EXCEPT ![t] = "aborted"]
    /\ inflight' = { f \in inflight : f.owner # HandleOwner(t) }
    /\ Drop(t)
    /\ UNCHANGED << phase, reactions, aliases, commands, store, key, image_url,
                    response, status, result, outcome, refreshed,
                    warm, okFetches, lastPut >>

(* ------------------------------ Next ---------------------------------- *)

Next ==
    \/ InitBegin
    \/ InitBuildFail
    \/ \E k \in RegistryKeys : \E r \in Fetch(k) : WarmResolve(k, r)
    \/ InitEnd
    \/ \E t \in Tasks : \E c \in Commands : HandleBegin(t, c)
    \/ \E t \in Tasks : HandleGetCached(t)
    \/ \E t \in Tasks : HandleBuildResponse(t)
    \/ \E t \in Tasks : \E st \in {"Ok", "Err"} : HandleSendResolve(t, st)
    \/ \E t \in Tasks : HandleRefreshStart(t)
    \/ \E t \in Tasks : \E r \in AllOutcomes : HandleRefreshResolve(t, r)
    \/ \E t \in Tasks : HandleAbort(t)

Spec == Init /\ [][Next]_vars

(* --------------------- init over drawn configurations ------------------ *)

\* largest number of configured reactions drawn
MaxReactions == 51

\* how the drawn reactions are named: all plain, or every other one with a
\* name that begins with "reaction"
NameStyles == {"plain", "prefixed"}

\* which of the drawn reactions carry the alias flag
AliasPatterns == {"none", "all", "odd"}

\* the name of the i-th drawn reaction
RegName(i, style) ==
    IF style = "prefixed" /\ i % 2 = 1
    THEN <<"reaction", "ary">> \o UsizeToString(i)
    ELSE <<"r">> \o UsizeToString(i)

\* the i-th drawn reaction
RegReaction(i, style, pattern) ==
    [name |-> RegName(i, style),
     alias |-> (pattern = "all" \/ (pattern = "odd" /\ i % 2 = 1)),
     backends |-> << <<"giphy", "hug">> >>,
     default_responses |-> << <<"{user}", "greets", "{target}">> >>,
     bot_responses |-> << <<"{user}", "greets", "me">> >>,
     self_responses |-> << <<"{user}", "greets", "themselves">> >>]

\* config.reactions: n reactions with distinct names
RegConfigs ==
    { [i \in 1..n |-> RegReaction(i, style, pattern)] :
        n \in 0..MaxReactions, style \in NameStyles, pattern \in AliasPatterns }

\* init runs once, on any of the drawn configurations
RegNext ==
    \/ \E config \in RegConfigs : InitBeginWith(config)
    \/ \E config \in RegConfigs : InitBuildFailWith(config)
    \/ \E k \in RegistryKeys : \E r \in Fetch(k) : WarmResolve(k, r)
    \/ InitEnd

RegSpec == Init /\ [][RegNext]_vars

\* the invocations the platform delivers for a registered command d: of a
\* grouped command one of its subcommands with the required user option, of
\* an alias command the command with the required user option
Invocations(d) ==
    IF Len(d.options) >= 1 /\ d.options[1].kind = "SubCommand"
    THEN { [name |-> d.name, user |-> "alice",
            options |-> << SubCommand(d.options[j].name, << UserOption(v) >>) >>] :
              j \in 1..Len(d.options), v \in {"alice", "bob"} }
    ELSE { [name |-> d.name, user |-> "alice", options |-> << UserOption(v) >>] :
              v \in {"alice", "bob"} }

(* ------------------------------ claims -------------------------------- *)

\* a fetch for key k has succeeded at some time
EverFetched(k) == \E u \in okFetches : u.key = k

\* the fetch of task t's refresh resolves in this step
Resolves(t) == outcome[t] = None /\ outcome'[t] # None

\* C1: a refresh_cache(K) whose fetch fails returns FetchError to its caller
\* (handle propagates it) and leaves every entry of the store, that of K and
\* those of all other keys, exactly as it was before the call.
C1_FailedRefreshKeepsStore ==
    [][\A t \in Tasks :
          (Resolves(t) /\ outcome'[t][1][1] = "Err")
              => /\ store' = store
                 /\ result'[t] = <<"Err", "FetchError">>]_vars

\* C1 witness: a refresh of a populated key failed and the handler returned
C1_Witness ==
    \E t \in Tasks :
        /\ outcome[t] # None
        /\ outcome[t][1][1] = "Err"
        /\ pc[t] = "done"
        /\ image_url[t] # None
        /\ store[key[t]] = image_url[t]

C3_NeverFetchedIsMiss ==
    \A k \in AllKeys :
        ~EverFetched(k) =>
            /\ GetCached(store, k) = <<"Err", "NotCachedError">>
            /\ \A t \in Tasks :
                  key[t] = k =>
                      /\ image_url[t] = None
                      /\ pc[t] \in {"lookup", "done"}
                      /\ (pc[t] = "done" => result[t] = <<"Err", "no cached gif">>)

\* C3 witness: lookups missed on a key whose warm-up fetch failed and on a
\* key of an unknown backend
C3_Witness ==
    \E t, u \in Tasks :
        /\ result[t] = <<"Err", "no cached gif">>
        /\ result[u] = <<"Err", "no cached gif">>
        /\ key[t] \in RegistryKeys
        /\ warm[key[t]] = <<"failed">>
        /\ key[u] \notin RegistryKeys

\* C4: a get_cached(K) returns exactly the URL of the last completed
\* successful put for K (by build_cache or by a successful refresh_cache),
\* and a miss only if no put for K has completed.
C4_GetReturnsLastPut ==
    [][\A t \in Tasks :
          (pc[t] = "lookup" /\ pc'[t] # "lookup")
              => IF lastPut[key[t]] = None
                 THEN pc'[t] = "done" /\ result'[t] = <<"Err", "no cached gif">>
                 ELSE pc'[t] = "build" /\ image_url'[t] = lastPut[key[t]]]_vars

\* C4 witness: a refresh of task t returned u2, replacing the value t had
\* read, and the next get_cached of the same key returned u2
C4_Witness ==
    \E t, u \in Tasks :
        /\ t # u
        /\ key[t] = key[u]
        /\ outcome[t] # None
        /\ outcome[t][1][1] = "Ok"
        /\ image_url[t] # Some(outcome[t][1][2])
        /\ image_url[u] = Some(outcome[t][1][2])

\* C5: when build_cache completes every warm-up fetch has resolved, and each
\* known pair is present with its own fetched URL if its fetch succeeded and
\* absent if its fetch failed, whatever happened to the other pairs.
C5_BuildCachePerPair ==
    [][(phase = "building" /\ phase' = "ready")
          => \A k \in RegistryKeys :
                /\ warm[k][1] \in {"ok", "failed"}
                /\ warm[k][1] = "ok" => store'[k] = Some(warm[k][2])
                /\ warm[k][1] = "failed" => store'[k] = None]_vars

\* C5 witness: build_cache completed with one pair failed and another present
C5_Witness ==
    /\ phase = "ready"
    /\ \A t \in Tasks : pc[t] = "idle"
    /\ \E j, k \in RegistryKeys :
          /\ warm[j] = <<"failed">>
          /\ store[j] = None
          /\ warm[k][1] = "ok"
          /\ store[k] = Some(warm[k][2])

\* C6: every stored value, and every value a get_cached returned, is the
\* whole result of one successful fetch for that same key.
C6_ValuesAreFetchResults ==
    /\ \A k \in AllKeys :
          store[k] # None => store[k][1] \in okFetches /\ store[k][1].key = k
    /\ \A t \in Tasks :
          image_url[t] # None
              => image_url[t][1] \in okFetches /\ image_url[t][1].key = key[t]

\* C6 witness: two refreshes of one key have finished, one of them failed,
\* and the stored value is the result of the one that succeeded
C6_Witness ==
    \E t, u \in Tasks :
        /\ t # u
        /\ key[t] = key[u]
        /\ outcome[t] # None /\ outcome[t][1][1] = "Ok"
        /\ outcome[u] # None /\ outcome[u][1][1] = "Err"
        /\ store[key[t]] = Some(outcome[t][1][2])
        /\ image_url[t] # store[key[t]]

\* C7: a populated key stays populated: no step empties or removes an entry.
C7_PopulatedStaysPopulated ==
    [][\A k \in AllKeys : store[k] # None => store'[k] # None]_vars

\* C7 witness: a key is still populated after a failed refresh followed a
\* successful one
C7_Witness ==
    \E t, u \in Tasks :
        /\ key[t] = key[u]
        /\ outcome[t] # None /\ outcome[t][1][1] = "Ok"
        /\ image_url[u] = Some(outcome[t][1][2])
        /\ outcome[u] # None /\ outcome[u][1][1] = "Err"
        /\ store[key[u]] # None

\* C8: get_cached is a non-blocking lookup: while a refresh_cache is
\* suspended on its fetch, the lookup of the next invocation is not held
\* up, i.e. that invocation can enter handle and reach its get_cached
\* without waiting for the fetch to resolve.
C8_LookupNotDelayedByRefresh ==
    \A t \in Tasks :
        pc[t] = "refreshing"
            => \A u \in Tasks :
                  NextInvocation(u) => ENABLED (\E c \in Commands : HandleBegin(u, c))

\* C9: no exclusive borrow of the module (and with it of the manager and
\* the store) is held while the fetch of a refresh_cache is in flight.
C9_NoBorrowAcrossFetch ==
    \A t \in Tasks :
        [owner |-> HandleOwner(t), key |-> key[t]] \in inflight
            => HandleOwner(t) \notin borrow

\* C10: aborting a command invocation whose refresh_cache has started does
\* not cancel the refresh: its fetch is still in flight after the abort.
C10_AbortKeepsRefresh ==
    [][\A t \in Tasks :
          (pc[t] = "refreshing" /\ pc'[t] = "aborted")
              => [owner |-> HandleOwner(t), key |-> key[t]] \in inflight']_vars

\* C11: in every invocation the refresh comes after the response send: a
\* handler has called refresh_cache only if its get_cached returned a URL and
\* its create_response has resolved, and a response that was delivered
\* carries, as image and in its source line, the URL read by that get_cached.
C11_RespondBeforeRefresh ==
    \A t \in Tasks :
        /\ (refreshed[t] # << >> \/ outcome[t] # None
                \/ \E f \in inflight : f.owner = HandleOwner(t))
              => (status[t] # None /\ image_url[t] # None)
        /\ response[t] # None
              => /\ image_url[t] # None
                 /\ response[t][1].image = image_url[t][1]
                 /\ response[t][1].source
                        = <<"From", key[t][1], image_url[t][1]>>

\* C11 witness: a response carried the old URL and the refresh that followed
\* stored a different one
C11_Witness ==
    \E t \in Tasks :
        /\ response[t] # None
        /\ outcome[t] # None
        /\ outcome[t][1][1] = "Ok"
        /\ response[t][1].image # outcome[t][1][2]
        /\ store[key[t]] = Some(outcome[t][1][2])

\* C12: an invocation whose get_cached missed ends at once with the error
\* "no cached gif" returned to its caller: no response is sent, with or
\* without a URL, and no fetch or refresh_cache is issued in that request.
C12_MissEndsRequest ==
    \A t \in Tasks :
        (key[t] # None /\ pc[t] # "lookup" /\ image_url[t] = None)
            => /\ pc[t] = "done"
               /\ result[t] = <<"Err", "no cached gif">>
               /\ status[t] = None
               /\ response[t] = None
               /\ refreshed[t] = << >>
               /\ outcome[t] = None
               /\ \A f \in inflight : f.owner # HandleOwner(t)

\* C12 witness: a lookup missed on a key whose warm-up fetch had failed,
\* while another key is cached
C12_Witness ==
    \E t \in Tasks :
        /\ pc[t] = "done"
        /\ key[t] \in RegistryKeys
        /\ warm[key[t]] = <<"failed">>
        /\ image_url[t] = None
        /\ \E k \in RegistryKeys : store[k] # None

\* C13: init returns its command list only after build_cache has completed
\* with every warm-up fetch resolved; until then no handler has reached
\* get_cached or refresh_cache; if build_cache fails, init fails and no
\* command list and no alias is recorded.
C13_InitAfterBuildCache ==
    /\ commands # None
          => /\ phase = "ready"
             /\ \A k \in RegistryKeys : warm[k][1] \in {"ok", "failed"}
             /\ \A f \in inflight : f.owner # InitOwner
    /\ phase = "ready" => commands # None
    /\ phase = "init_failed" => (commands = None /\ aliases = << >>)
    /\ phase \in {"new", "building"}
          => \A t \in Tasks :
                key[t] = None /\ image_url[t] = None /\ refreshed[t] = << >>

\* C13 witness: init has returned its commands after a warm-up in which one
\* fetch failed, and a handler has since been served from the cache
C13_Witness ==
    /\ commands # None
    /\ Len(commands[1]) > 0
    /\ \E k \in RegistryKeys : warm[k] = <<"failed">>
    /\ \E t \in Tasks : image_url[t] # None

\* C14: a reaction with an empty backends list, or an empty response list
\* for the user/target combination, makes handle return an error as an
\* ordinary value: no invocation ever panics.
C14_EmptyListIsError ==
    \A t \in Tasks : pc[t] # "panicked"

C16_RefreshErrorFirst ==
    \A t \in Tasks :
        (pc[t] = "done" /\ image_url[t] # None)
            => /\ result[t] = <<"Ok">>
                    <=> /\ status[t] = Some("Ok")
                        /\ outcome[t] # None
                        /\ outcome[t][1][1] = "Ok"
               /\ (outcome[t] # None /\ outcome[t][1][1] = "Err")
                    => result[t] = <<"Err", "FetchError">>
               /\ (outcome[t] # None /\ outcome[t][1][1] = "Ok"
                      /\ status[t] = Some("Err"))
                    => result[t] = <<"Err", "failed to send response">>

\* C16 witness: the send and the refresh both failed, the refresh error is returned
C16_Witness ==
    \E t \in Tasks :
        /\ pc[t] = "done"
        /\ status[t] = Some("Err")
        /\ outcome[t] # None
        /\ outcome[t][1][1] = "Err"
        /\ result[t] = <<"Err", "FetchError">>

\* C17: a key that is unpopulated once build_cache has completed is never
\* populated by command handling: no step of a handler fills it or starts a
\* fetch for it, and a handler that looks it up returns the cache miss.
C17_UnpopulatedStaysUnpopulated ==
    [][\A k \in AllKeys :
          (phase = "ready" /\ store[k] = None)
              => /\ store'[k] = None
                 /\ \A f \in inflight' : f.key # k
                 /\ \A t \in Tasks :
                       (key[t] = k /\ pc[t] = "lookup" /\ pc'[t] # "lookup")
                           => /\ pc'[t] = "done"
                              /\ result'[t] = <<"Err", "no cached gif">>
                              /\ refreshed'[t] = << >>]_vars

\* C17 witness: two commands in a row for a registered key whose warm-up
\* failed both ended in a cache miss and the key is still unpopulated
C17_Witness ==
    \E k \in RegistryKeys :
        /\ warm[k][1] = "failed"
        /\ store[k] = None
        /\ \A t \in Tasks :
              /\ key[t] = k
              /\ pc[t] = "done"
              /\ result[t] = <<"Err", "no cached gif">>

\* C18: every invocation of a command that init registered is accepted by
\* handles and resolved by handle to the reaction it was created for: a
\* subcommand s of a grouped command to the reaction named s with the
\* subcommand's options, an alias command n to the reaction named n with the
\* top-level options.
C18_RegisteredCommandsResolve ==
    commands # None =>
        \A i \in 1..Len(commands[1]) : \A c \in Invocations(commands[1][i]) :
            /\ Handles(aliases, c)
            /\ Resolve(reactions, c)[1] = "Ok"
            /\ IF commands[1][i].options[1].kind = "SubCommand"
               THEN /\ reactions[Resolve(reactions, c)[2]].name = c.options[1].name
                    /\ Resolve(reactions, c)[3] = c.options[1].sub
               ELSE /\ reactions[Resolve(reactions, c)[2]].name = c.name
                    /\ Resolve(reactions, c)[3] = c.options

\* C19: for n reactions init returns ceil(n/25) grouped commands named
\* reaction, reaction2, reaction3, ... with at most 25 subcommands each, every
\* reaction being a subcommand exactly once and in configuration order,
\* followed by one alias command per reaction with the alias flag; self.aliases
\* holds the names of exactly those reactions.
C19_CommandLayout ==
    commands # None =>
        LET n == Len(reactions)
            cs == commands[1]
            groups == IF n % 25 = 0 THEN n \div 25 ELSE (n \div 25) + 1
            flagged == { i \in 1..n : reactions[i].alias }
        IN  /\ Len(cs) = groups + Cardinality(flagged)
            /\ \A b \in 1..groups :
                  /\ cs[b].name = IF b = 1 THEN <<"reaction">>
                                  ELSE <<"reaction", DigitChars[b + 1]>>
                  /\ Len(cs[b].options) \in 1..25
                  /\ \A j \in 1..Len(cs[b].options) : (b - 1) * 25 + j <= n
            /\ \A i \in 1..n :
                  LET o == cs[((i - 1) \div 25) + 1].options[((i - 1) % 25) + 1]
                  IN  o.name = reactions[i].name /\ o.kind = "SubCommand"
            /\ Len(aliases) = Cardinality(flagged)
            /\ \A j \in 1..Len(aliases) :
                  /\ cs[groups + j].name = aliases[j]
                  /\ cs[groups + j].options = << UserOptionDef >>
                  /\ \E i \in flagged :
                        /\ reactions[i].name = aliases[j]
                        /\ Cardinality({ h \in flagged : h < i }) = j - 1

\* C19 witness: init returned three grouped commands, the last one shorter,
\* and alias commands for some but not all reactions
C19_Witness ==
    /\ commands # None
    /\ Len(reactions) > 2 * ChunkSize
    /\ commands[1][3].name = <<"reaction", "3">>
    /\ Len(commands[1][3].options) < ChunkSize
    /\ Len(aliases) > 0
    /\ Len(aliases) < Len(reactions)

\* C20: the target of a command is the user of its first option, the bot
\* when there is none; the response text is built from a template of
\* self_responses when the target is the invoking user, else of bot_responses
\* when the target is the bot, else of default_responses.
C20_ResponseListChoice ==
    \A t \in Tasks :
        pc[t] = "sending" =>
            LET c == cmd[t][1]
                opts == IF c.name[1] = "reaction" THEN c.options[1].sub ELSE c.options
                tgt == IF opts # << >> /\ opts[1].user # None
                       THEN opts[1].user[1] ELSE "bot"
                r == reactions[reaction[t][1]]
                list == IF tgt = c.user THEN r.self_responses
                        ELSE IF tgt = "bot" THEN r.bot_responses
                        ELSE r.default_responses
            IN  /\ user[t] = Some(c.user)
                /\ target[t] = Some(tgt)
                /\ \E j \in 1..Len(list) :
                      message[t][1] =
                          Replace(Replace(list[j], "{user}", <<"@", c.user>>),
                                  "{target}", <<"@", tgt>>)
                            \o << <<"From", key[t][1], image_url[t][1]>> >>

\* C20 witness: the bot's own account ran a command without a user option;
\* the target is the bot and the text comes from self_responses
C20_Witness ==
    \E t \in Tasks :
        /\ pc[t] = "sending"
        /\ cmd[t][1].options = << >>
        /\ user[t] = Some("bot")
        /\ target[t] = Some("bot")
        /\ message[t][1][3] = "themselves"

====
